---- MODULE Spec2Model ----
(***************************************************************************)
(* Model of main-name-generator.ipynb: the character codec, the            *)
(* preparation of the padded training tensors and the two generation       *)
(* loops.                                                                  *)
(*                                                                         *)
(* Representation.  A Python str is a sequence of code points, so a word   *)
(* is a TLA+ sequence of integers (chr(97) = 'a' is 97, '.' is 46).  A     *)
(* numpy array of shape (k,) is a sequence of length k; an array of shape  *)
(* (k, features) is a sequence of k rows, each row a function on           *)
(* 0..features-1, so that column indices are the code's indices.           *)
(***************************************************************************)
EXTENDS Integers, Sequences, FiniteSets

VARIABLES
    calls,              \* codec: the chain of codec calls made so far
    pc,                 \* preparation: the next cell to execute
    exc,                \* preparation: the exception that stopped the run
    male_names_data, timesteps, X_male, y_male,
    X_male_int, X_male_encoded, y_male_int, y_male_encoded,
    X_male_padded, y_male_padded,
    nll,                \* training: -log of the model's prediction, per sample and timestep
    mask,               \* training: the mask the Masking layer computes
    loss,               \* training: the loss of one pass over the batch, before its reduction
    cell,               \* generation: the cell being executed
    memo,               \* generation: the trained model, as far as it was queried
    x, word, c,         \* generation: the loop's variables
    fed,                \* generation: the last input given to model.predict
    chosen,             \* generation: the indices y_n_hat chosen in this run
    printed             \* generation: the words printed so far, with their cell

codec_vars == <<calls>>
prep_vars == <<pc, exc, male_names_data, timesteps, X_male, y_male,
               X_male_int, X_male_encoded, y_male_int, y_male_encoded,
               X_male_padded, y_male_padded, nll, mask, loss>>
fit_vars == <<nll, mask, loss>>
gen_vars == <<cell, memo, x, word, c, fed, chosen, printed>>
vars == <<codec_vars, prep_vars, gen_vars>>

----------------------------------------------------------------------------
(* Bounds of the model *)

MaxWordLen == 2         \* longest word or index array drawn for a codec call
MaxNames == 2           \* most names in a corpus
MaxNameLen == 2         \* longest raw name in a corpus
IterCap == 4            \* iterations of a generation loop that the model follows
MaxGreedyRuns == 2      \* executions of the greedy cell

----------------------------------------------------------------------------
(* Python and numpy helpers *)

Range(s) == {s[i] : i \in DOMAIN s}

Max(S) == CHOOSE m \in S : \A k \in S : k <= m

Last(s) == s[Len(s)]

\* s[1:]
Tail1(s) == IF Len(s) = 0 THEN <<>> ELSE Tail(s)

\* dict(zip(keys, vals)): a later pair overwrites an earlier one with the same key
dict_zip(keys, vals) ==
    [k \in Range(keys) |-> vals[Max({i \in DOMAIN keys : keys[i] = k})]]

\* np.zeros(features): one all-zero row
zeros(features) == [j \in 0..(features - 1) |-> 0]

np_argmax_last(row) ==
    CHOOSE j \in DOMAIN row :
        /\ \A k \in DOMAIN row : row[k] <= row[j]
        /\ \A k \in DOMAIN row : k > j => row[k] < row[j]

\* np.argmax: the first index holding the maximum
np_argmax(row) ==
    CHOOSE j \in DOMAIN row :
        /\ \A k \in DOMAIN row : row[k] <= row[j]
        /\ \A k \in DOMAIN row : k < j => row[k] < row[j]

----------------------------------------------------------------------------
(* Mappings *)

\* 'à', 'á', 'è', 'é', 'í', 'ò', 'ó', 'ú', 'ñ', 'ç', "'", '.', ' '
special_chars_dup == <<224, 225, 232, 233, 237, 242, 243, 250, 241, 231, 39, 46, 46>>
special_chars == <<224, 225, 232, 233, 237, 242, 243, 250, 241, 231, 39, 46, 32>>

\* [chr(i) for i in range(97, 123)]
standard_chars == [i \in 1..26 |-> 96 + i]

chars == standard_chars \o special_chars

seq == [i \in 1..Len(chars) |-> i - 1]

map_char_to_int == dict_zip(chars, seq)
map_int_to_char == dict_zip(seq, chars)

\* n = len(map_char_to_int)
n == Cardinality(DOMAIN map_char_to_int)

DOT == 46               \* '.'
UNK == <<85, 78, 75>>   \* 'UNK'

----------------------------------------------------------------------------
(* Auxiliary functions for mapping *)

\* word_encoded[i, pos] = 1 raises IndexError unless -features <= pos < features
one_hot_raises(word_int, features) ==
    \E i \in DOMAIN word_int : word_int[i] >= features \/ word_int[i] < -features

\* numpy counts a negative index from the end of the axis
column(pos, features) == IF pos < 0 THEN features + pos ELSE pos

one_hot_encoding_shifted(word_int, features) ==
    [i \in DOMAIN word_int |->
        [j \in 0..(features - 1) |->
            IF j = (column(word_int[i], features) + 1) % features THEN 1 ELSE 0]]

one_hot_encoding(word_int, features) ==
    [i \in DOMAIN word_int |->
        [j \in 0..(features - 1) |->
            IF j = column(word_int[i], features) THEN 1 ELSE 0]]

one_hot_decoding(word_encoded) ==
    [i \in DOMAIN word_encoded |-> np_argmax(word_encoded[i])]

\* mapping[c] raises KeyError for a character that is no key
encode_raises(w, mapping) == \E i \in DOMAIN w : w[i] \notin DOMAIN mapping

encode_word_to_int(w, mapping) == [i \in DOMAIN w |-> mapping[w[i]]]

RECURSIVE decode_int_to_word(_, _)
decode_int_to_word(word_int, mapping) ==
    IF Len(word_int) = 0 THEN <<>>
    ELSE LET i == Head(word_int)
         IN  (IF i \in DOMAIN mapping THEN <<mapping[i]>> ELSE UNK)
                 \o decode_int_to_word(Tail(word_int), mapping)

encode_list(array, mapping) ==
    [i \in DOMAIN array |->
        one_hot_encoding(encode_word_to_int(array[i], mapping),
                         Cardinality(DOMAIN mapping))]

decode_list(array, mapping) ==
    [i \in DOMAIN array |-> decode_int_to_word(one_hot_decoding(array[i]), mapping)]

----------------------------------------------------------------------------
(* Codec calls: each auxiliary function applied to drawn arguments, or to   *)
(* the value the previous call returned                                     *)

SeqsUpTo(S, k) == UNION {[1..m -> S] : m \in 0..k}

\* 'a', 'ñ', '.', and '-', which is no key of map_char_to_int
SampleChars == {97, 241, DOT, 45}

Words == SeqsUpTo(SampleChars, MaxWordLen) \cup {<<ch>> : ch \in Range(chars)}

\* indices inside 0..n-1 and on either side of it
SampleInts == {0, map_char_to_int[DOT], n, -1}

IntArrays == SeqsUpTo(SampleInts, MaxWordLen) \cup {<<i>> : i \in (-1)..n}

Returned(f, a, r) == [f |-> f, arg |-> a, ret |-> r, exc |-> "none"]
Raised(f, a, e) == [f |-> f, arg |-> a, ret |-> <<>>, exc |-> e]

LastReturned(fs) ==
    /\ Len(calls) > 0
    /\ Last(calls).f \in fs
    /\ Last(calls).exc = "none"

ResultEncodeWordToInt(w) ==
    IF encode_raises(w, map_char_to_int)
    THEN Raised("encode_word_to_int", w, "KeyError")
    ELSE Returned("encode_word_to_int", w, encode_word_to_int(w, map_char_to_int))

ResultOneHotEncoding(w) ==
    IF one_hot_raises(w, n)
    THEN Raised("one_hot_encoding", w, "IndexError")
    ELSE Returned("one_hot_encoding", w, one_hot_encoding(w, n))

ResultOneHotDecoding(e) == Returned("one_hot_decoding", e, one_hot_decoding(e))

ResultDecodeIntToWord(w) ==
    Returned("decode_int_to_word", w, decode_int_to_word(w, map_int_to_char))

CallEncodeWordToInt ==
    /\ \E w \in Words : calls' = <<ResultEncodeWordToInt(w)>>
    /\ UNCHANGED <<prep_vars, gen_vars>>

CallOneHotEncoding ==
    /\ \/ \E w \in IntArrays : calls' = <<ResultOneHotEncoding(w)>>
       \/ /\ LastReturned({"encode_word_to_int"})
          /\ calls' = Append(calls, ResultOneHotEncoding(Last(calls).ret))
    /\ UNCHANGED <<prep_vars, gen_vars>>

CallDecodeIntToWord ==
    /\ \/ \E w \in IntArrays : calls' = <<ResultDecodeIntToWord(w)>>
       \/ /\ LastReturned({"encode_word_to_int", "one_hot_decoding"})
          /\ calls' = Append(calls, ResultDecodeIntToWord(Last(calls).ret))
    /\ UNCHANGED <<prep_vars, gen_vars>>

CodecInit == calls = <<>>

\* the notebook before any cell of the preparation or the generation has run
PrepOff ==
    /\ pc = "off" /\ exc = "none"
    /\ male_names_data = <<>> /\ timesteps = 0
    /\ X_male = <<>> /\ y_male = <<>>
    /\ X_male_int = <<>> /\ X_male_encoded = <<>>
    /\ y_male_int = <<>> /\ y_male_encoded = <<>>
    /\ X_male_padded = <<>> /\ y_male_padded = <<>>
    /\ nll = <<>> /\ mask = <<>> /\ loss = 0

GenOff ==
    /\ cell = "off" /\ memo = <<>>
    /\ x = <<>> /\ word = <<>> /\ c = 0
    /\ fed = <<>> /\ chosen = <<>> /\ printed = <<>>

----------------------------------------------------------------------------
(* Load and map data: the cells that turn the corpus into padded tensors *)

\* str.lower() of one character: 'A'..'Z' and the accented capitals of Latin-1
\* move 32 code points up; U+0130 becomes 'i' followed by U+0307
lower_char(ch) ==
    IF ch \in 65..90 \/ (ch \in 192..222 /\ ch # 215) THEN <<ch + 32>>
    ELSE IF ch = 304 THEN <<105, 775>>
    ELSE <<ch>>

RECURSIVE lower(_)
lower(name) == IF Len(name) = 0 THEN <<>> ELSE lower_char(Head(name)) \o lower(Tail(name))

max_len_shortest(names) ==
    CHOOSE k \in {Len(names[i]) : i \in DOMAIN names} :
        \A i \in DOMAIN names : k <= Len(names[i])

\* len(max(male_names_data, key = len))
max_len(names) == Max({Len(names[i]) : i \in DOMAIN names})

\* name[1:] + '.'
shift_str_unshifted(name) == name \o <<DOT>>
shift_str(name) == Tail1(name) \o <<DOT>>

\* one_hot_encoding([map_char_to_int['.']], n)
dot_encoded == one_hot_encoding(<<map_char_to_int[DOT]>>, n)

\* word_int[1:] + [map_char_to_int['.']] on a numpy array: the one-element list is
\* broadcast and added to every element
shift_int(word_int) ==
    [i \in DOMAIN Tail1(word_int) |-> Tail1(word_int)[i] + map_char_to_int[DOT]]

\* np.concatenate((l[1:], dot_encoded), axis = 0)
shift_encoded(l) == Tail1(l) \o dot_encoded

\* the words of X_male that the loop encodes before mapping[c] raises
encoded_prefix(names) ==
    IF \E i \in DOMAIN names : encode_raises(names[i], map_char_to_int)
    THEN SubSeq(names, 1,
                (CHOOSE i \in DOMAIN names :
                    /\ encode_raises(names[i], map_char_to_int)
                    /\ \A k \in 1..(i - 1) : ~encode_raises(names[k], map_char_to_int)) - 1)
    ELSE names

\* pad_sequences: the fill of a padded position; the samples have no feature axis
\* when every sequence is empty
all_empty(sequences) == \A i \in DOMAIN sequences : Len(sequences[i]) = 0

pad_fill(sequences) == IF all_empty(sequences) THEN 0 ELSE zeros(n)

\* pad_sequences(sequences, maxlen, padding = 'post', truncating = 'post', value = 0)
pad_sequences(sequences, maxlen) ==
    [i \in DOMAIN sequences |->
        [t \in 1..maxlen |->
            IF t <= Len(sequences[i]) THEN sequences[i][t] ELSE pad_fill(sequences)]]

CellParams ==
    /\ pc = "params"
    /\ IF Len(male_names_data) = 0
       THEN /\ exc' = "ValueError"
            /\ pc' = "stopped"
            /\ UNCHANGED timesteps
       ELSE /\ timesteps' = max_len(male_names_data)
            /\ pc' = "lower"
            /\ UNCHANGED exc
    /\ UNCHANGED <<male_names_data, X_male, y_male, X_male_int, X_male_encoded,
                   y_male_int, y_male_encoded, X_male_padded, y_male_padded>>
    /\ UNCHANGED <<codec_vars, gen_vars, fit_vars>>

CellLower ==
    /\ pc = "lower"
    /\ male_names_data' = [i \in DOMAIN male_names_data |-> lower(male_names_data[i])]
    /\ pc' = "xy"
    /\ UNCHANGED <<exc, timesteps, X_male, y_male, X_male_int, X_male_encoded,
                   y_male_int, y_male_encoded, X_male_padded, y_male_padded>>
    /\ UNCHANGED <<codec_vars, gen_vars, fit_vars>>

CellXY ==
    /\ pc = "xy"
    /\ X_male' = male_names_data
    /\ y_male' = [i \in DOMAIN male_names_data |-> shift_str(male_names_data[i])]
    /\ pc' = "encode"
    /\ UNCHANGED <<exc, male_names_data, timesteps, X_male_int, X_male_encoded,
                   y_male_int, y_male_encoded, X_male_padded, y_male_padded>>
    /\ UNCHANGED <<codec_vars, gen_vars, fit_vars>>

CellEncode ==
    /\ pc = "encode"
    /\ LET done == encoded_prefix(X_male)
       IN  /\ X_male_int' =
                  [i \in DOMAIN done |-> encode_word_to_int(done[i], map_char_to_int)]
           /\ X_male_encoded' =
                  [i \in DOMAIN done |->
                      one_hot_encoding(encode_word_to_int(done[i], map_char_to_int), n)]
           /\ IF Len(done) < Len(X_male)
              THEN exc' = "KeyError" /\ pc' = "stopped"
              ELSE pc' = "targets" /\ UNCHANGED exc
    /\ UNCHANGED <<male_names_data, timesteps, X_male, y_male,
                   y_male_int, y_male_encoded, X_male_padded, y_male_padded>>
    /\ UNCHANGED <<codec_vars, gen_vars, fit_vars>>

CellTargets ==
    /\ pc = "targets"
    /\ y_male_int' = [i \in DOMAIN X_male_int |-> shift_int(X_male_int[i])]
    /\ y_male_encoded' = [i \in DOMAIN X_male_encoded |-> shift_encoded(X_male_encoded[i])]
    /\ pc' = "pad_x"
    /\ UNCHANGED <<exc, male_names_data, timesteps, X_male, y_male,
                   X_male_int, X_male_encoded, X_male_padded, y_male_padded>>
    /\ UNCHANGED <<codec_vars, gen_vars, fit_vars>>

CellPadX ==
    /\ pc = "pad_x"
    /\ X_male_padded' = pad_sequences(X_male_encoded, timesteps)
    /\ pc' = "pad_y"
    /\ UNCHANGED <<exc, male_names_data, timesteps, X_male, y_male,
                   X_male_int, X_male_encoded, y_male_int, y_male_encoded, y_male_padded>>
    /\ UNCHANGED <<codec_vars, gen_vars, fit_vars>>

CellPadY ==
    /\ pc = "pad_y"
    /\ y_male_padded' = pad_sequences(y_male_encoded, timesteps)
    /\ pc' = "done"
    /\ UNCHANGED <<exc, male_names_data, timesteps, X_male, y_male,
                   X_male_int, X_male_encoded, y_male_int, y_male_encoded, X_male_padded>>
    /\ UNCHANGED <<codec_vars, gen_vars, fit_vars>>

----------------------------------------------------------------------------
(* Model: one pass of model.fit over the padded batch *)

\* Masking(mask_value = 0): a timestep whose features all equal 0 is masked
IsMasked(row) == \A j \in DOMAIN row : row[j] = 0

\* parameters of the model drawn for the pass
Seeds == {0, 1, 2}

\* -log y_pred at timestep t of sample i, in whole units: positive, and varying
\* with the class, the timestep, the sample and the parameters
nll_row(seed, i, t) == [j \in 0..(n - 1) |-> 1 + ((j + seed * t + i) % 3)]

RECURSIVE dot(_, _, _)
dot(a, b, k) == IF k < 0 THEN 0 ELSE a[k] * b[k] + dot(a, b, k - 1)

\* categorical_crossentropy of one timestep: -sum(y_true * log(y_pred))
categorical_crossentropy(y_true, l) == dot(y_true, l, n - 1)

RECURSIVE sum(_)
sum(s) == IF Len(s) = 0 THEN 0 ELSE Head(s) + sum(Tail(s))

\* Masking.compute_mask: a timestep is kept when some feature of the input
\* differs from mask_value
compute_mask(inputs) ==
    [i \in DOMAIN inputs |-> [t \in DOMAIN inputs[i] |-> ~IsMasked(inputs[i][t])]]

\* the per-timestep losses of sample i, a masked timestep weighing 0
masked_losses(y_true, l, m, i) ==
    [t \in DOMAIN y_true[i] |->
        IF m[i][t] THEN categorical_crossentropy(y_true[i][t], l[i][t]) ELSE 0]

\* history = model.fit(X_male_input, y_male_input, epochs = 60); a batch whose
\* sequences are all empty has no feature axis and is refused
CellFit ==
    /\ pc = "done"
    /\ IF all_empty(X_male_encoded)
       THEN /\ exc' = "ValueError"
            /\ pc' = "stopped"
            /\ UNCHANGED fit_vars
       ELSE /\ \E seed \in Seeds :
                   nll' = [i \in DOMAIN X_male_padded |->
                              [t \in 1..timesteps |-> nll_row(seed, i, t)]]
            /\ mask' = compute_mask(X_male_padded)
            /\ loss' = sum([i \in DOMAIN y_male_padded |->
                               sum(masked_losses(y_male_padded, nll', mask', i))])
            /\ pc' = "trained"
            /\ UNCHANGED exc
    /\ UNCHANGED <<male_names_data, timesteps, X_male, y_male, X_male_int,
                   X_male_encoded, y_male_int, y_male_encoded,
                   X_male_padded, y_male_padded>>
    /\ UNCHANGED <<codec_vars, gen_vars>>

\* 'A', 'ñ' and U+0130, whose lower case is two characters, the second one
\* (U+0307) no key of map_char_to_int
RawChars == {65, 241, 304}

RawNames == SeqsUpTo(RawChars, MaxNameLen)

Corpora == SeqsUpTo(RawNames, MaxNames)

\* the notebook after male_names_data was read from the file
InitPrep ==
    /\ male_names_data \in Corpora
    /\ pc = "params" /\ exc = "none"
    /\ timesteps = 0
    /\ X_male = <<>> /\ y_male = <<>>
    /\ X_male_int = <<>> /\ X_male_encoded = <<>>
    /\ y_male_int = <<>> /\ y_male_encoded = <<>>
    /\ X_male_padded = <<>> /\ y_male_padded = <<>>
    /\ nll = <<>> /\ mask = <<>> /\ loss = 0
    /\ CodecInit /\ GenOff

PrepNext ==
    \/ CellParams
    \/ CellLower
    \/ CellXY
    \/ CellEncode
    \/ CellTargets
    \/ CellPadX
    \/ CellPadY
    \/ CellFit

SpecPrep == InitPrep /\ [][PrepNext]_vars

----------------------------------------------------------------------------
(* Text generation: the stochastic cell, then the greedy cell                *)
(*                                                                          *)
(* The trained model is a fixed but unknown function from the input x to    *)
(* the last row y_n of its prediction.  memo holds that function on the     *)
(* inputs it was asked so far: a first query of an input draws its output,  *)
(* and every later query of the same input returns the same output.         *)

\* a vector of length n with the given weights, 0 elsewhere; weights stand for
\* probabilities in quarters
Weights(w) == [j \in 0..(n - 1) |-> IF j \in DOMAIN w THEN w[j] ELSE 0]

At(j, v) == [k \in {j} |-> v]

Either(j, v, k, u) == [i \in {j, k} |-> IF i = j THEN v ELSE u]

\* outputs y_n the model may give: END for sure, 'a' for sure, 'n' and END
\* equally likely, END more likely than 'a'
Outputs ==
    { Weights(At(map_char_to_int[DOT], 4)),
      Weights(At(map_char_to_int[97], 4)),
      Weights(Either(map_char_to_int[110], 2, map_char_to_int[DOT], 2)),
      Weights(Either(map_char_to_int[97], 1, map_char_to_int[DOT], 3)) }

\* y = model.predict(x); y_n = y[0, -1, :]
predict(input) == IF input \in DOMAIN memo THEN {memo[input]} ELSE Outputs

remember(input, y_n) ==
    [h \in DOMAIN memo \cup {input} |-> IF h = input THEN y_n ELSE memo[h]]

\* np.random.choice(range(n), p = y_n): an index of positive probability
random_choice(y_n) == {j \in DOMAIN y_n : y_n[j] > 0}

\* np.argmax(y_n)
greedy_choice_any_max(y_n) == {j \in DOMAIN y_n : \A k \in DOMAIN y_n : y_n[k] <= y_n[j]}
greedy_choice(y_n) == {np_argmax(y_n)}

\* x = np.zeros((1, 1, n))
initial_input == <<zeros(n)>>

\* np.reshape(one_hot_encoding([y_n_hat], n), (1, 1, -1))
y_n_hat_encoded_unset(y_n_hat) == <<zeros(n)>>
y_n_hat_encoded_twice(y_n_hat) ==
    one_hot_encoding(<<y_n_hat>>, n) \o one_hot_encoding(<<y_n_hat>>, n)

y_n_hat_encoded(y_n_hat) == one_hot_encoding(<<y_n_hat>>, n)

\* word += c
word_plus_unless_end(w, ch) == IF ch = DOT THEN w ELSE w \o <<ch>>
word_plus_front(w, ch) == <<ch>> \o w
word_plus(w, ch) == w \o <<ch>>

\* x = np.zeros((1, 1, n)); word = ''; c = '-'
StartLoop ==
    /\ x' = initial_input
    /\ word' = <<>>
    /\ c' = 45
    /\ fed' = <<>>
    /\ chosen' = <<>>

\* y_n_hat: np.random.choice in the stochastic cell, np.argmax in the greedy cell
choice(which, y_n) ==
    IF which = "stochastic" THEN random_choice(y_n) ELSE greedy_choice(y_n)

\* one iteration of "while c != '.'" in the cell `which`
Iterate(which) ==
    /\ c # DOT
    /\ Len(word) < IterCap     \* the model follows the loop no further
    /\ \E y_n \in predict(x) :
           \E y_n_hat \in choice(which, y_n) :
               /\ memo' = remember(x, y_n)
               /\ fed' = x
               /\ chosen' = Append(chosen, y_n_hat)
               /\ c' = map_int_to_char[y_n_hat]
               /\ word' = word_plus(word, map_int_to_char[y_n_hat])
               /\ x' = x \o y_n_hat_encoded(y_n_hat)

\* print(word)
PrintWord(which) ==
    /\ c = DOT
    /\ printed' = Append(printed, [cell |-> which, word |-> word])
    /\ UNCHANGED <<memo, x, word, c, fed, chosen>>

StochasticStart ==
    /\ cell = "stochastic"
    /\ StartLoop
    /\ cell' = "stochastic_loop"
    /\ UNCHANGED <<memo, printed>>
    /\ UNCHANGED <<codec_vars, prep_vars>>

StochasticIterate ==
    /\ cell = "stochastic_loop"
    /\ Iterate("stochastic")
    /\ UNCHANGED <<cell, printed>>
    /\ UNCHANGED <<codec_vars, prep_vars>>

StochasticPrint ==
    /\ cell = "stochastic_loop"
    /\ PrintWord("stochastic")
    /\ cell' = "greedy"
    /\ UNCHANGED <<codec_vars, prep_vars>>

GreedyStart ==
    /\ cell = "greedy"
    /\ StartLoop
    /\ cell' = "greedy_loop"
    /\ UNCHANGED <<memo, printed>>
    /\ UNCHANGED <<codec_vars, prep_vars>>

GreedyIterate ==
    /\ cell = "greedy_loop"
    /\ Iterate("greedy")
    /\ UNCHANGED <<cell, printed>>
    /\ UNCHANGED <<codec_vars, prep_vars>>

\* the greedy cell is executed again until it has run MaxGreedyRuns times
GreedyPrint ==
    /\ cell = "greedy_loop"
    /\ PrintWord("greedy")
    /\ cell' = IF Cardinality({i \in DOMAIN printed' : printed'[i].cell = "greedy"})
                      < MaxGreedyRuns
               THEN "greedy" ELSE "end"
    /\ UNCHANGED <<codec_vars, prep_vars>>

\* the notebook with a trained model, before the generation cells
InitGen ==
    /\ cell = "stochastic" /\ memo = <<>>
    /\ x = <<>> /\ word = <<>> /\ c = 0
    /\ fed = <<>> /\ chosen = <<>> /\ printed = <<>>
    /\ CodecInit /\ PrepOff

GenNext ==
    \/ StochasticStart
    \/ StochasticIterate
    \/ StochasticPrint
    \/ GreedyStart
    \/ GreedyIterate
    \/ GreedyPrint

SpecGen == InitGen /\ [][GenNext]_vars

----------------------------------------------------------------------------
(* Codec calls on model outputs and on lists of names *)

\* rows that reach np.argmax: outputs of the model, and the all-zero row of a
\* padded position
SampleRows == Outputs \cup {zeros(n)}

Tensors == SeqsUpTo(SampleRows, MaxWordLen)

\* names of length 0, 1 and 2 made of 'a' and of another letter
SampleNames == {<<>>, <<97>>, <<241, 97>>}

NameLists == SeqsUpTo(SampleNames, MaxNames)

ResultEncodeList(array) ==
    Returned("encode_list", array, encode_list(array, map_char_to_int))

\* pad_sequences as the padding cells call it; maxlen may cut a sequence or
\* extend it
ResultPadSequences(sequences, maxlen) ==
    Returned("pad_sequences", <<sequences, maxlen>>, pad_sequences(sequences, maxlen))

ResultDecodeList(array) ==
    Returned("decode_list", array, decode_list(array, map_int_to_char))

\* a, b = word_encoded.shape raises ValueError for the first element of the
\* array without a feature axis that pad_sequences returns when every
\* sequence is empty
ResultDecodeListOfPadded(call) ==
    IF Len(call.arg[1]) > 0 /\ all_empty(call.arg[1])
    THEN Raised("decode_list", call.ret, "ValueError")
    ELSE ResultDecodeList(call.ret)

CallEncodeList ==
    /\ \E array \in NameLists : calls' = <<ResultEncodeList(array)>>
    /\ UNCHANGED <<prep_vars, gen_vars>>

CallPadSequences ==
    /\ LastReturned({"encode_list"})
    /\ \E maxlen \in 0..(MaxNameLen + 1) :
           calls' = Append(calls, ResultPadSequences(Last(calls).ret, maxlen))
    /\ UNCHANGED <<prep_vars, gen_vars>>

CallDecodeList ==
    /\ \/ /\ LastReturned({"encode_list"})
          /\ calls' = Append(calls, ResultDecodeList(Last(calls).ret))
       \/ /\ LastReturned({"pad_sequences"})
          /\ calls' = Append(calls, ResultDecodeListOfPadded(Last(calls)))
    /\ UNCHANGED <<prep_vars, gen_vars>>

CallOneHotDecoding ==
    /\ \/ \E e \in Tensors : calls' = <<ResultOneHotDecoding(e)>>
       \/ /\ LastReturned({"one_hot_encoding"})
          /\ calls' = Append(calls, ResultOneHotDecoding(Last(calls).ret))
    /\ UNCHANGED <<prep_vars, gen_vars>>

\* y_n_hat = np.argmax(y_n) of the greedy cell
CallGreedyChoice ==
    /\ \E y_n \in Outputs :
           \E y_n_hat \in greedy_choice(y_n) :
               calls' = <<Returned("greedy_choice", y_n, y_n_hat)>>
    /\ UNCHANGED <<prep_vars, gen_vars>>

CodecNext ==
    \/ CallEncodeWordToInt
    \/ CallOneHotEncoding
    \/ CallOneHotDecoding
    \/ CallDecodeIntToWord
    \/ CallGreedyChoice
    \/ CallEncodeList
    \/ CallPadSequences
    \/ CallDecodeList

InitCodec == CodecInit /\ PrepOff /\ GenOff

SpecCodec == InitCodec /\ [][CodecNext]_vars

----------------------------------------------------------------------------
(* Properties of the codec, checked under SpecCodec *)

InAlphabet(w) == \A i \in DOMAIN w : w[i] \in 0..(n - 1)

\* C4: the alphabet mapping is a total bijection between the 39 symbols and
\* the indices 0..38: decoding the index of a symbol gives the symbol back,
\* and encoding the symbol of an index gives the index back; so a word that
\* encode_word_to_int accepted is returned unchanged by decode_int_to_word.
C4_AlphabetBijection ==
    /\ n = 39
    /\ Len(chars) = n
    /\ DOMAIN map_char_to_int = Range(chars)
    /\ DOMAIN map_int_to_char = 0..(n - 1)
    /\ \A s \in Range(chars) : map_int_to_char[map_char_to_int[s]] = s
    /\ \A i \in 0..(n - 1) : map_char_to_int[map_int_to_char[i]] = i
    /\ \A k \in 2..Len(calls) :
           /\ calls[k].f = "decode_int_to_word"
           /\ calls[k - 1].f = "encode_word_to_int"
           => calls[k].ret = calls[k - 1].arg

C4_Witness ==
    /\ Len(calls) = 2
    /\ calls[1].f = "encode_word_to_int" /\ calls[1].arg = <<DOT>>
    /\ calls[2].f = "decode_int_to_word" /\ calls[2].ret = <<DOT>>

\* C5: one_hot_decoding applied to one_hot_encoding(w, n) returns w, element
\* by element, for every index array w with all entries in 0..n-1.
C5_OneHotRoundTrip ==
    \A k \in 2..Len(calls) :
        /\ calls[k].f = "one_hot_decoding"
        /\ calls[k - 1].f = "one_hot_encoding"
        /\ InAlphabet(calls[k - 1].arg)
        => /\ Len(calls[k].ret) = Len(calls[k - 1].arg)
           /\ \A i \in DOMAIN calls[k].ret : calls[k].ret[i] = calls[k - 1].arg[i]

C5_Witness ==
    /\ Len(calls) = 2
    /\ calls[1].f = "one_hot_encoding"
    /\ calls[1].arg = <<map_char_to_int[DOT], 0>>
    /\ calls[2].f = "one_hot_decoding"
    /\ calls[2].ret = calls[1].arg

\* the smallest index among those holding the maximum value of row
LowestMax(row) ==
    LET top == Max(Range(row))
        holders == {j \in DOMAIN row : row[j] = top}
    IN  CHOOSE j \in holders : \A k \in holders : j <= k

\* C12: arg-max selection breaks ties by the lowest index: one_hot_decoding of
\* a row and the choice of the greedy generator both return the smallest
\* index among those holding the maximum value.
C12_ArgmaxLowestIndex ==
    \A k \in 1..Len(calls) :
        /\ calls[k].f = "one_hot_decoding" /\ calls[k].exc = "none"
           => /\ Len(calls[k].ret) = Len(calls[k].arg)
              /\ \A i \in DOMAIN calls[k].arg :
                     calls[k].ret[i] = LowestMax(calls[k].arg[i])
        /\ calls[k].f = "greedy_choice" => calls[k].ret = LowestMax(calls[k].arg)

\* a row with 'n' and END tied for the maximum, and an all-zero row
C12_Witness ==
    /\ Len(calls) = 1
    /\ calls[1].f = "one_hot_decoding"
    /\ calls[1].arg =
           <<Weights(Either(map_char_to_int[110], 2, map_char_to_int[DOT], 2)), zeros(n)>>
    /\ calls[1].ret = <<map_char_to_int[110], 0>>

\* the call at position k decodes the padded encoding of a list of names
DecodesPadded(k) ==
    /\ k >= 3
    /\ calls[k].f = "decode_list"
    /\ calls[k - 1].f = "pad_sequences"
    /\ calls[k - 2].f = "encode_list"

\* s followed by count copies of the character with index 0
Trailed(s, count) == s \o [j \in 1..count |-> map_int_to_char[0]]

\* C17: decoding does not recover a name from its padded tensor: every
\* all-zero row decodes to index 0, so for a name of length k padded to T
\* rows decode_list returns the name followed by T - k copies of 'a';
\* decode_list(encode_list(names)) == names holds only for unpadded tensors.
C17_PaddingDecodesToA ==
    \A k \in 1..Len(calls) :
        /\ DecodesPadded(k)
           => LET names == calls[k - 2].arg
                  T == calls[k - 1].arg[2]
              IN  /\ calls[k].exc = "none"
                  /\ \A i \in DOMAIN names :
                         Len(names[i]) <= T =>
                             calls[k].ret[i] = Trailed(names[i], T - Len(names[i]))
                  /\ (\E i \in DOMAIN names : Len(names[i]) < T)
                         => calls[k].ret # names
        /\ k >= 2 /\ calls[k].f = "decode_list" /\ calls[k - 1].f = "encode_list"
           => calls[k].ret = calls[k - 1].arg

\* C17 for the lists in which some name is not empty
PaddingDecodesToAUnlessAllEmpty ==
    \A k \in 1..Len(calls) :
        /\ DecodesPadded(k)
           => LET names == calls[k - 2].arg
                  T == calls[k - 1].arg[2]
              IN  IF Len(names) > 0 /\ all_empty(names)
                  THEN calls[k].exc = "ValueError"
                  ELSE /\ calls[k].exc = "none"
                       /\ \A i \in DOMAIN names :
                              Len(names[i]) <= T =>
                                  calls[k].ret[i] = Trailed(names[i], T - Len(names[i]))
                       /\ (\E i \in DOMAIN names : Len(names[i]) < T)
                              => calls[k].ret # names
        /\ k >= 2 /\ calls[k].f = "decode_list" /\ calls[k - 1].f = "encode_list"
           => calls[k].ret = calls[k - 1].arg

\* C7: decode_int_to_word given an index outside 0..n-1 fails with an error
\* and returns no string in which a placeholder stands for that index.
C7_DecodeFailsOnUnknownIndex ==
    \A k \in 1..Len(calls) :
        /\ calls[k].f = "decode_int_to_word"
        /\ ~InAlphabet(calls[k].arg)
        => calls[k].exc # "none"

----------------------------------------------------------------------------
(* Properties of the preparation, checked under SpecPrep *)

IsOneHotAt(row, idx) ==
    /\ DOMAIN row = 0..(n - 1)
    /\ \A j \in DOMAIN row : row[j] = (IF j = idx THEN 1 ELSE 0)

IsAllZero(row) == \A j \in DOMAIN row : row[j] = 0

\* C3: shift invariant.  For every name of length k >= 1 the target has the
\* same length k, target[i] = input[i+1] for i < k-1 and target[k-1] = END,
\* for the strings (y_male) and for the one-hot tensors (y_male_encoded).
C3_ShiftInvariant ==
    /\ \A i \in DOMAIN y_male :
           LET k == Len(X_male[i])
           IN  k >= 1 =>
                   /\ Len(y_male[i]) = k
                   /\ \A j \in 1..(k - 1) : y_male[i][j] = X_male[i][j + 1]
                   /\ y_male[i][k] = DOT
    /\ \A i \in DOMAIN y_male_encoded :
           LET k == Len(X_male_encoded[i])
           IN  k >= 1 =>
                   /\ k = Len(X_male[i])
                   /\ Len(y_male_encoded[i]) = k
                   /\ \A j \in 1..(k - 1) :
                          /\ y_male_encoded[i][j] = X_male_encoded[i][j + 1]
                          /\ IsOneHotAt(y_male_encoded[i][j],
                                        map_char_to_int[X_male[i][j + 1]])
                   /\ IsOneHotAt(y_male_encoded[i][k], map_char_to_int[DOT])

C3_Witness ==
    /\ pc = "done"
    /\ Len(X_male) = 2
    /\ X_male[2] = <<97, 241>>
    /\ y_male[2] = <<241, DOT>>
    /\ Len(y_male_encoded[2]) = 2

\* C6: padded batch invariant.  With T the maximum name length of the corpus,
\* every padded input and target tensor has exactly T rows; for a name of
\* length k each row t < k has exactly one 1, at the index of its symbol, and
\* each row t >= k is all-zero.
C6_PaddedBatchInvariant ==
    pc = "done" =>
        \A i \in DOMAIN X_male :
            LET T == max_len(X_male)
                k == Len(X_male[i])
            IN  /\ Len(X_male_padded[i]) = T
                /\ Len(y_male_padded[i]) = T
                /\ \A t \in 1..T :
                       IF t <= k
                       THEN /\ IsOneHotAt(X_male_padded[i][t],
                                          map_char_to_int[X_male[i][t]])
                            /\ IsOneHotAt(y_male_padded[i][t],
                                          map_char_to_int[y_male[i][t]])
                       ELSE /\ IsAllZero(X_male_padded[i][t])
                            /\ IsAllZero(y_male_padded[i][t])

\* The padded batch invariant on the names that are not empty.
PaddedBatchOfNonEmptyNames ==
    pc = "done" =>
        \A i \in DOMAIN X_male :
            LET T == max_len(X_male)
                k == Len(X_male[i])
            IN  k >= 1 =>
                /\ Len(X_male_padded[i]) = T
                /\ Len(y_male_padded[i]) = T
                /\ \A t \in 1..T :
                       IF t <= k
                       THEN /\ IsOneHotAt(X_male_padded[i][t],
                                          map_char_to_int[X_male[i][t]])
                            /\ IsOneHotAt(y_male_padded[i][t],
                                          map_char_to_int[y_male[i][t]])
                       ELSE /\ IsAllZero(X_male_padded[i][t])
                            /\ IsAllZero(y_male_padded[i][t])

\* C8: a name of length 0 is rejected before the sequence preparation, so no
\* input/target pair is produced for an empty name.
C8_EmptyNameRejected ==
    \A i \in DOMAIN X_male_encoded \cap DOMAIN y_male_encoded : Len(X_male[i]) # 0

\* C13: for a name of length k >= 1, y_male_int has length k and is the index
\* sequence of the name shifted left by one with the END index appended, so it
\* equals one_hot_decoding(y_male_encoded).
C13_IntegerTargetsShifted ==
    \A i \in DOMAIN y_male_int :
        LET k == Len(X_male[i])
        IN  k >= 1 =>
                /\ Len(y_male_int[i]) = k
                /\ y_male_int[i] = Tail1(X_male_int[i]) \o <<map_char_to_int[DOT]>>
                /\ y_male_int[i] = one_hot_decoding(y_male_encoded[i])

\* what the cell computes: the one-hot targets decode to the shifted index
\* sequence, and y_male_int is one element shorter, each index raised by the
\* index of END
IntegerTargetsBroadcast ==
    \A i \in DOMAIN y_male_int :
        LET k == Len(X_male[i])
        IN  k >= 1 =>
                /\ one_hot_decoding(y_male_encoded[i]) =
                       Tail1(X_male_int[i]) \o <<map_char_to_int[DOT]>>
                /\ Len(y_male_int[i]) = k - 1
                /\ \A j \in 1..(k - 1) :
                       y_male_int[i][j] = X_male_int[i][j + 1] + map_char_to_int[DOT]

\* rows 1..Len(rows) of a padded sequence are the unpadded rows
KeepsRows(padded, rows) ==
    /\ Len(rows) <= Len(padded)
    /\ \A t \in DOMAIN rows : padded[t] = rows[t]

Lowered == pc \notin {"params", "lower"}

\* C14: padding never truncates a name: T is computed from the raw names, yet
\* every lower-cased name of the corpus has length k <= T and rows 0..k-1 of
\* its padded input and target tensors equal its unpadded encoded rows.
C14_NormalizedNamesFit ==
    /\ Lowered => \A i \in DOMAIN male_names_data : Len(male_names_data[i]) <= timesteps
    /\ \A i \in DOMAIN X_male_padded :
           \A t \in 1..Len(X_male[i]) : X_male_padded[i][t] = X_male_encoded[i][t]
    /\ \A i \in DOMAIN y_male_padded :
           \A t \in 1..Len(X_male[i]) : y_male_padded[i][t] = y_male_encoded[i][t]

\* C14 as the code has it: a lower-cased name longer than T never reaches the
\* padding cells, because the encoding cell stops with KeyError; whenever the
\* padded tensors are built, every name has k <= T rows and they are kept.
C14_PaddedNamesNotTruncated ==
    /\ Lowered /\ (\E i \in DOMAIN male_names_data : Len(male_names_data[i]) > timesteps)
           => /\ pc \in {"xy", "encode", "stopped"}
              /\ pc = "stopped" => exc = "KeyError"
              /\ X_male_padded = <<>> /\ y_male_padded = <<>>
    /\ \A i \in DOMAIN X_male_padded :
           /\ Len(X_male[i]) <= timesteps
           /\ Len(X_male_padded[i]) = timesteps
           /\ Len(X_male_encoded[i]) = Len(X_male[i])
           /\ KeepsRows(X_male_padded[i], X_male_encoded[i])
    /\ \A i \in DOMAIN y_male_padded :
           /\ Len(y_male_padded[i]) = timesteps
           /\ Len(X_male[i]) >= 1 => /\ Len(y_male_encoded[i]) = Len(X_male[i])
                                     /\ KeepsRows(y_male_padded[i], y_male_encoded[i])

\* 'A' and 'Añ' lower-cased, padded to T = 2: one name shorter than T, one of
\* length T
C14_Witness ==
    /\ pc = "done"
    /\ timesteps = 2
    /\ X_male = <<<<97>>, <<97, 241>>>>
    /\ X_male_padded[1] = <<X_male_encoded[1][1], zeros(n)>>
    /\ X_male_padded[2] = X_male_encoded[2]
    /\ y_male_padded[1] = <<dot_encoded[1], zeros(n)>>
    /\ y_male_padded[2] = y_male_encoded[2]

\* the timesteps of sample i that weigh in the loss
Contributing(i) == {t \in DOMAIN mask[i] : mask[i][t]}

\* the loss of the same samples with their padded rows removed: sample i runs
\* over its own Len(X_male_encoded[i]) timesteps and nothing is masked
UnpaddedLoss ==
    sum([i \in DOMAIN X_male_encoded |->
            sum([t \in DOMAIN X_male_encoded[i] |->
                    categorical_crossentropy(y_male_encoded[i][t], nll[i][t])])])

\* C11: padding exclusion.  For every sample of length k of the padded batch
\* the timesteps that contribute to the loss are exactly the positions 0..k-1,
\* which are those whose target row is not all-zero, so the loss over the
\* padded batch equals the loss over the samples with the padded rows removed.
C11_PaddingExcludedFromLoss ==
    pc = "trained" =>
        /\ \A i \in DOMAIN X_male :
               /\ Contributing(i) = 1..Len(X_male[i])
               /\ Contributing(i) =
                      {t \in DOMAIN y_male_padded[i] : ~IsAllZero(y_male_padded[i][t])}
        /\ loss = UnpaddedLoss

\* Padding exclusion for the batches without an empty name.
PaddingExcludedForNonEmptyNames ==
    pc = "trained" /\ (\A i \in DOMAIN X_male : Len(X_male[i]) >= 1) =>
        /\ \A i \in DOMAIN X_male :
               /\ Contributing(i) = 1..Len(X_male[i])
               /\ Contributing(i) =
                      {t \in DOMAIN y_male_padded[i] : ~IsAllZero(y_male_padded[i][t])}
        /\ loss = UnpaddedLoss
        /\ loss > 0

----------------------------------------------------------------------------
(* Properties of the generation, checked under SpecGen *)

InLoop == cell \in {"stochastic_loop", "greedy_loop"}

\* a state right after print(word): word and chosen are those of the run printed
JustPrinted == cell \in {"greedy", "end"} /\ Len(printed) > 0

GreedyWords ==
    LET runs == SelectSeq(printed, LAMBDA p : p.cell = "greedy")
    IN  [i \in DOMAIN runs |-> runs[i].word]

IsPrefix(s, t) == Len(s) <= Len(t) /\ \A i \in DOMAIN s : s[i] = t[i]

\* a maximum length a caller would configure; any value below IterCap lets the
\* model follow the loop past it
MaxLength == IterCap - 1

\* C1: every generation run, stochastic or greedy, stops after at most the
\* configured maximum number of emitted symbols, whatever the model predicts.
C1_TerminatesWithinBound == InLoop => Len(word) <= MaxLength

\* C2: the string printed by a run that stopped on END excludes the END
\* marker: it is the sequence of symbols chosen before END.
C2_OutputExcludesEnd ==
    /\ \A i \in DOMAIN printed : DOT \notin Range(printed[i].word)
    /\ JustPrinted =>
           Last(printed).word =
               [j \in 1..(Len(chosen) - 1) |-> map_int_to_char[chosen[j]]]

\* C2 as amended: the string printed is the sequence of all symbols chosen in
\* the run, END included: END is its last character and occurs nowhere else.
C2_OutputEndsWithEnd ==
    /\ \A i \in DOMAIN printed :
           LET w == printed[i].word
           IN  /\ Len(w) >= 1
               /\ w[Len(w)] = DOT
               /\ \A j \in 1..(Len(w) - 1) : w[j] # DOT
    /\ JustPrinted =>
           Last(printed).word = [j \in DOMAIN chosen |-> map_int_to_char[chosen[j]]]

C2_Witness ==
    /\ JustPrinted
    /\ Len(Last(printed).word) = 3
    /\ Last(printed).cell = "stochastic"

\* C9: greedy generation is deterministic: every execution of the greedy cell
\* on the same model chooses the same symbol at every step and prints the
\* same word.
C9_GreedyDeterministic ==
    /\ \A i, j \in DOMAIN GreedyWords : GreedyWords[i] = GreedyWords[j]
    /\ cell = "greedy_loop" /\ Len(GreedyWords) > 0 => IsPrefix(word, GreedyWords[1])

C9_Witness ==
    /\ Len(GreedyWords) = 2
    /\ Len(GreedyWords[2]) = 3
    /\ cell = "end"

\* C10: no input row given to the model during generation, the first one
\* included, is an all-zero row that the Masking layer treats as padding:
\* every row is the one-hot encoding of an alphabet symbol.
C10_NeverFeedsPadding ==
    \A t \in DOMAIN fed :
        /\ ~IsMasked(fed[t])
        /\ \E idx \in 0..(n - 1) : IsOneHotAt(fed[t], idx)

\* C10 as amended: the first row of every input given to the model is the
\* all-zero row, which the Masking layer treats as padding, and it is the only
\* such row: row t + 1 is the one-hot encoding of the t-th symbol chosen.
C10_OnlyFirstRowIsPadding ==
    Len(fed) > 0 =>
        /\ IsMasked(fed[1])
        /\ Len(fed) = Len(chosen)
        /\ \A t \in 2..Len(fed) :
               /\ ~IsMasked(fed[t])
               /\ chosen[t - 1] \in 0..(n - 1)
               /\ IsOneHotAt(fed[t], chosen[t - 1])

C10_Witness ==
    /\ cell = "greedy_loop"
    /\ Len(fed) = 3
    /\ c # DOT

\* the step of a loop iteration: the cell stays in its loop and the loop's
\* variables change
LoopStep == InLoop /\ cell' = cell /\ <<x, word, c>>' # <<x, word, c>>

HistoryMatchesWord ==
    InLoop =>
        /\ Len(x) = Len(word) + 1
        /\ IsAllZero(x[1])
        /\ \A t \in 1..Len(word) : IsOneHotAt(x[t + 1], map_char_to_int[word[t]])

AppendsOne ==
    LoopStep =>
        /\ Len(word') = Len(word) + 1
        /\ SubSeq(word', 1, Len(word)) = word
        /\ Len(x') = Len(x) + 1
        /\ SubSeq(x', 1, Len(x)) = x

\* C15: generation loop invariant: at the start of every iteration of either
\* loop x has len(word) + 1 rows, row 0 is all-zero and rows 1..len(word) are
\* the one-hot encodings of the characters of word in order; each iteration
\* appends exactly one character to word and exactly one row to x.
C15_LoopInvariant == [](HistoryMatchesWord) /\ [][AppendsOne]_vars

C15_Witness ==
    /\ cell = "stochastic_loop"
    /\ c # DOT
    /\ Len(word) = 2
    /\ Len(x) = 3
    /\ IsOneHotAt(x[3], map_char_to_int[word[2]])

EndOnlyLast == \A j \in 1..Len(word) : word[j] = DOT => j = Len(word)

\* the loop test "c != '.'" has failed, or print(word) has run
LoopExited == (InLoop /\ c = DOT) \/ JustPrinted

NoIterationAfterEnd == InLoop /\ DOT \in Range(word) => ~LoopStep

\* C16: in every state of a generation run END occurs in word at most once
\* and only as its last character; the loop performs no further iteration
\* after the first END is chosen; when the loop has exited, word is non-empty
\* and ends with END.
C16_EndIsTerminal ==
    /\ [](EndOnlyLast /\ (LoopExited => Len(word) >= 1 /\ Last(word) = DOT))
    /\ [][NoIterationAfterEnd]_vars

C16_Witness ==
    /\ cell = "greedy_loop"
    /\ c = DOT
    /\ Len(word) = 2
    /\ word[2] = DOT

====
